---- MODULE Spec2Model ----
(***************************************************************************)
(* The agent turn loop of Learn-Claude-Code (Go): the interactive loop     *)
(* agentLoop with its bash tool runBashIn (agents/s01_agent_loop/main.go), *)
(* the registry based loop loop.Run (pkg/loop/agent.go) with               *)
(* tools.Registry and bashHandler.                                         *)
(*                                                                         *)
(* Text is modelled as a sequence of one-character strings, so that        *)
(* substring tests, trimming, concatenation and length caps are computed   *)
(* character by character as the Go code computes them.                    *)
(***************************************************************************)
EXTENDS Integers, Sequences, FiniteSets, TLC

VARIABLES
    variant,     \* which loop is running: "agentLoop" or "Run"
    pc,          \* position of the loop: AwaitingModel, ExecutingTools, Done, Failed, Aborted
    input,       \* the history passed into this loop invocation
    messages,    \* the local variable messages of the loop
    choice,      \* resp.Choices[0] of the last successful model call
    idx,         \* position of the range loop over choice.Message.ToolCalls
    modelCalls,  \* number of model calls issued so far
    request,     \* Messages and Tools of the last request sent to the model client
    ret,         \* the history handed back to the caller (once pc is terminal)
    retErr,      \* the error handed back to the caller by Run (NoErr when nil)
    spawned,     \* commands for which a bash subprocess was spawned, in order
    tool,        \* bash tool under direct call: "none", "runBashIn", "bashHandler"
    command,     \* command of the last direct call of a bash tool
    result,      \* text returned by the last direct call of a bash tool
    proc,        \* what the subprocess of the last direct call gave back
    registry,    \* the tool registry: its definitions and its map of handlers
    registered,  \* the Register calls made on the registry, in order
    dispatch     \* the last direct Dispatch: name, arguments, handlers it invoked

loopVars == <<variant, pc, input, messages, choice, idx, modelCalls, request, ret, retErr>>
regVars == <<registry, registered, dispatch>>
toolVars == <<tool, command, result, proc, registry, registered, dispatch>>
vars == <<variant, pc, input, messages, choice, idx, modelCalls, request, ret, retErr,
          spawned, tool, command, result, proc, registry, registered, dispatch>>

----------------------------------------------------------------------------
(* Bounds of the model.                                                    *)

\* model calls one loop invocation may issue
MaxModelCalls == 2
\* tool calls the model may request over one loop invocation
MaxToolCalls == 2
\* characters put before and after a command core for the safety gate
MaxPad == 1

----------------------------------------------------------------------------
(* String literals of the source and of its tests.                         *)

sRmRf ==
    <<"r", "m", " ", "-", "r", "f", " ", "/">>
sSudo ==
    <<"s", "u", "d", "o">>
sShutdown ==
    <<"s", "h", "u", "t", "d", "o", "w", "n">>
sReboot ==
    <<"r", "e", "b", "o", "o", "t">>
sDevRedirect ==
    <<">", " ", "/", "d", "e", "v", "/">>
sBlocked ==
    <<"E", "r", "r", "o", "r", ":", " ", "D", "a", "n", "g", "e", "r", "o", "u", "s", " ", "c", "o", "m", "m", "a", "n", "d", " ", "b", "l", "o", "c", "k", "e", "d">>
sNoOutput ==
    <<"(", "n", "o", " ", "o", "u", "t", "p", "u", "t", ")">>
sErrorPrefix ==
    <<"E", "r", "r", "o", "r", ":", " ">>
sLowerErrorPrefix ==
    <<"e", "r", "r", "o", "r", ":", " ">>
sExitErrorPrefix ==
    <<"e", "x", "i", "t", " ", "e", "r", "r", "o", "r", ":", " ">>
sTruncatedMarker ==
    <<"\n", ".", ".", ".", "(", "t", "r", "u", "n", "c", "a", "t", "e", "d", ")">>
sReadFile ==
    <<"r", "e", "a", "d", "_", "f", "i", "l", "e">>
sUnknownToolPrefix ==
    <<"u", "n", "k", "n", "o", "w", "n", " ", "t", "o", "o", "l", ":", " ">>
sCommandMustBeString ==
    <<"c", "o", "m", "m", "a", "n", "d", " ", "m", "u", "s", "t", " ", "b", "e", " ", "a", " ", "s", "t", "r", "i", "n", "g">>
sExitStatus1 ==
    <<"e", "x", "i", "t", " ", "s", "t", "a", "t", "u", "s", " ", "1">>
sArgsOpen ==
    <<"{", "\"", "c", "o", "m", "m", "a", "n", "d", "\"", ":", "\"">>
sArgsClose ==
    <<"\"", "}">>
sArgsNumber ==
    <<"{", "\"", "c", "o", "m", "m", "a", "n", "d", "\"", ":", "4", "2", "}">>
sArgsInvalid ==
    <<"{", "i", "n", "v", "a", "l", "i", "d", " ", "j", "s", "o", "n">>
sJsonErrKey ==
    <<"i", "n", "v", "a", "l", "i", "d", " ", "c", "h", "a", "r", "a", "c", "t", "e", "r", " ", "'", "i", "'", " ", "l", "o", "o", "k", "i", "n", "g", " ", "f", "o", "r", " ", "b", "e", "g", "i", "n", "n", "i", "n", "g", " ", "o", "f", " ", "o", "b", "j", "e", "c", "t", " ", "k", "e", "y", " ", "s", "t", "r", "i", "n", "g">>
sJsonErrEnd ==
    <<"u", "n", "e", "x", "p", "e", "c", "t", "e", "d", " ", "e", "n", "d", " ", "o", "f", " ", "J", "S", "O", "N", " ", "i", "n", "p", "u", "t">>
sEchoHello ==
    <<"e", "c", "h", "o", " ", "h", "e", "l", "l", "o">>
sSudoLs ==
    <<"s", "u", "d", "o", " ", "l", "s">>
sHelloNewline ==
    <<"h", "e", "l", "l", "o", "\n">>
sBash ==
    <<"b", "a", "s", "h">>
sNope ==
    <<"n", "o", "p", "e">>
sUpperSudo ==
    <<"S", "U", "D", "O">>
sRmTwoSpaces ==
    <<"r", "m", " ", " ", "-", "r", "f", " ", "/">>
sRmNoSlash ==
    <<"r", "m", " ", "-", "r", "f">>
sDevNoSpace ==
    <<">", "/", "d", "e", "v", "/">>
sUpperReboot ==
    <<"R", "e", "b", "o", "o", "t">>
sShutDown ==
    <<"s", "h", "u", "t", " ", "d", "o", "w", "n">>
sEchoSafe ==
    <<"e", "c", "h", "o", " ", "s", "a", "f", "e">>
sSystemPrompt ==
    <<"s", "y", "s", "t", "e", "m", " ", "p", "r", "o", "m", "p", "t">>
sSayHello ==
    <<"s", "a", "y", " ", "h", "e", "l", "l", "o">>
sOk ==
    <<"o", "k">>

\* a nil error
NoErr == <<>>

----------------------------------------------------------------------------
(* Library functions, computed as the Go standard library computes them.   *)

\* unicode.IsSpace on the ASCII range
IsSpace(c) == c \in {" ", "\t", "\n", "\r", "\f"}

RECURSIVE TrimLeft(_)
TrimLeft(s) ==
    IF s # <<>> /\ IsSpace(Head(s)) THEN TrimLeft(Tail(s)) ELSE s

RECURSIVE TrimRight(_)
TrimRight(s) ==
    IF s # <<>> /\ IsSpace(s[Len(s)]) THEN TrimRight(SubSeq(s, 1, Len(s) - 1)) ELSE s

\* strings.TrimSpace, but only the trailing white space is removed
TrimSpaceRightOnly(s) == TrimRight(s)

\* strings.TrimSpace
TrimSpace(s) == TrimRight(TrimLeft(s))

\* strings.HasPrefix
HasPrefix(s, prefix) ==
    Len(prefix) <= Len(s) /\ SubSeq(s, 1, Len(prefix)) = prefix

\* strings.HasSuffix
HasSuffix(s, suffix) ==
    Len(suffix) <= Len(s) /\ SubSeq(s, Len(s) - Len(suffix) + 1, Len(s)) = suffix

\* strings.Index scans the start positions from the left; -1 when absent
RECURSIVE IndexFrom(_, _, _)
IndexFrom(s, substr, i) ==
    IF i + Len(substr) - 1 > Len(s) THEN -1
    ELSE IF SubSeq(s, i, i + Len(substr) - 1) = substr THEN i - 1
    ELSE IndexFrom(s, substr, i + 1)

\* a gate that only looks at the start of the command
ContainsAtStartOnly(s, substr) == HasPrefix(s, substr)

\* strings.Contains
Contains(s, substr) == IndexFrom(s, substr, 1) >= 0

\* json.Unmarshal into map[string]any, on the argument texts of the model:
\* {"command":"<text>"} gives a string, {"command":42} a number, {} no key,
\* anything else is a syntax error.  The value of key "command" is kept as
\* [kind, str].
jsonUnmarshal(text) ==
    LET body == SubSeq(text, Len(sArgsOpen) + 1, Len(text) - Len(sArgsClose))
    IN  IF /\ Len(text) >= Len(sArgsOpen) + Len(sArgsClose)
           /\ HasPrefix(text, sArgsOpen)
           /\ HasSuffix(text, sArgsClose)
           /\ \A i \in 1..Len(body) : body[i] \notin {"\"", "\\", "\n", "\t", "\r", "\f"}
        THEN [err |-> NoErr, args |-> [kind |-> "string", str |-> body]]
        ELSE IF text = sArgsNumber
        THEN [err |-> NoErr, args |-> [kind |-> "number", str |-> <<>>]]
        ELSE IF text = <<"{", "}">>
        THEN [err |-> NoErr, args |-> [kind |-> "absent", str |-> <<>>]]
        ELSE IF text = <<>>
        THEN [err |-> sJsonErrEnd, args |-> [kind |-> "absent", str |-> <<>>]]
        ELSE [err |-> sJsonErrKey, args |-> [kind |-> "absent", str |-> <<>>]]

----------------------------------------------------------------------------
(* The command safety gate and the two bash tools.                         *)

dangerousPatterns == <<sRmRf, sSudo, sShutdown, sReboot, sDevRedirect>>

\* the loop over dangerousPatterns at the head of runBashIn
RECURSIVE MatchesFrom(_, _)
MatchesFrom(cmd, k) ==
    IF k > Len(dangerousPatterns) THEN FALSE
    ELSE IF Contains(cmd, dangerousPatterns[k]) THEN TRUE
    ELSE MatchesFrom(cmd, k + 1)

\* IsBlocked, but the gate lets every command through
IsBlockedNever(cmd) == FALSE

IsBlocked(cmd) == MatchesFrom(cmd, 1)

\* output cap of runBashIn
interactiveCap == 50000
\* output cap of bashHandler
registryCap == 4000

\* runBashIn(command, dir); out and err are what cmd.CombinedOutput() gives
\* when the subprocess is spawned.  spawned tells whether exec.Command ran.
runBashIn(cmd, out, err) ==
    IF IsBlocked(cmd)
    THEN [output |-> sBlocked, spawned |-> FALSE]
    ELSE LET r0 == TrimSpace(out)
             r1 == IF err # NoErr /\ r0 = <<>> THEN sErrorPrefix \o err ELSE r0
             r2 == IF r1 = <<>> THEN sNoOutput ELSE r1
             r3 == IF Len(r2) > interactiveCap THEN SubSeq(r2, 1, interactiveCap) ELSE r2
         IN  [output |-> r3, spawned |-> TRUE]

\* bashHandler(args) of the registry based agent
bashHandler(args, out, err) ==
    IF args.kind # "string"
    THEN [output |-> <<>>, err |-> sCommandMustBeString, spawned |-> FALSE]
    ELSE IF err # NoErr
    THEN [output |-> sExitErrorPrefix \o err \o <<"\n">> \o out,
          err |-> NoErr, spawned |-> TRUE]
    ELSE [output |-> IF Len(out) > registryCap
                     THEN SubSeq(out, 1, registryCap) \o sTruncatedMarker
                     ELSE out,
          err |-> NoErr, spawned |-> TRUE]

\* descriptions of the two definitions of the tool bash
sRunShell ==
    <<"R", "u", "n", " ", "a", " ", "s", "h", "e", "l", "l", " ", "c", "o", "m", "m", "a", "n", "d", ".">>
sExecuteBash ==
    <<"E", "x", "e", "c", "u", "t", "e", " ", "a", " ", "b", "a", "s", "h", " ", "c", "o", "m", "m", "a", "n", "d", " ", "a", "n", "d", " ", "r", "e", "t", "u", "r", "n", " ", "i", "t", "s", " ", "o", "u", "t", "p", "u", "t", ".">>

\* a tool definition, by its name and its description
ToolDef(name, description) == [name |-> name, description |-> description]

\* bashToolDef() of the interactive agent
bashToolDef == ToolDef(sBash, sRunShell)

\* bashToolDef() of the registry based agent
registryBashToolDef == ToolDef(sBash, sExecuteBash)

\* the names of a list of definitions
NamesOf(defs) == [i \in 1..Len(defs) |-> defs[i].name]

\* tools.New(): no definitions, an empty map of handlers
New == [definitions |-> <<>>, handlers |-> [n \in {} |-> "none"]]

\* Registry.Register(def, handler), but the definition is put in front
RegisterInFront(r, def, handler) ==
    [definitions |-> <<def>> \o r.definitions,
     handlers |-> [n \in DOMAIN r.handlers \cup {def.name} |->
                        IF n = def.name THEN handler ELSE r.handlers[n]]]

\* Registry.Register(def, handler), but a handler already bound is kept
RegisterKeepsFirst(r, def, handler) ==
    [definitions |-> Append(r.definitions, def),
     handlers |-> [n \in DOMAIN r.handlers \cup {def.name} |->
                        IF n \in DOMAIN r.handlers THEN r.handlers[n] ELSE handler]]

\* Registry.Register(def, handler)
Register(r, def, handler) ==
    [definitions |-> Append(r.definitions, def),
     handlers |-> [n \in DOMAIN r.handlers \cup {def.name} |->
                        IF n = def.name THEN handler ELSE r.handlers[n]]]

\* Registry.Definitions()
Definitions(r) == r.definitions

\* the registry built by main of the registry based agent:
\* registry.Register(bashToolDef(), bashHandler)
mainRegistry == Register(New, registryBashToolDef, "bashHandler")

\* handlers of the registry built by main
mainHandlers == mainRegistry.handlers

\* definitions of the registry built by main
mainDefinitions == Definitions(mainRegistry)

\* texts the handlers of the registry harness hand back
sOne ==
    <<"o", "n", "e">>
sTwoFailed ==
    <<"t", "w", "o", " ", "f", "a", "i", "l", "e", "d">>

\* handler(args): bashHandler, or one of two handlers of the harness, of
\* which the first answers with a text and the arguments it was given and
\* the second with an error
Invoke(handler, args, out, err) ==
    IF handler = "bashHandler" THEN bashHandler(args, out, err)
    ELSE IF handler = "h1"
    THEN [output |-> sOne \o args.str, err |-> NoErr, spawned |-> FALSE]
    ELSE [output |-> <<>>, err |-> sTwoFailed, spawned |-> FALSE]

\* no request has been sent yet
NoRequest == [messages |-> <<>>, tools |-> <<>>]

\* Registry.Dispatch(name, args), but the handler is taken from any name
DispatchAnyHandler(handlers, name, args, out, err) ==
    IF name \notin DOMAIN handlers
    THEN [output |-> <<>>, err |-> sUnknownToolPrefix \o name, spawned |-> FALSE,
          invoked |-> <<>>]
    ELSE LET h == CHOOSE n \in DOMAIN handlers : TRUE
             r == Invoke(handlers[h], args, out, err)
         IN  [output |-> r.output, err |-> r.err, spawned |-> r.spawned,
              invoked |-> <<[handler |-> handlers[h], args |-> args]>>]

\* Registry.Dispatch(name, args) on the handlers map; invoked lists the calls
\* of handlers it made
Dispatch(handlers, name, args, out, err) ==
    IF name \notin DOMAIN handlers
    THEN [output |-> <<>>, err |-> sUnknownToolPrefix \o name, spawned |-> FALSE,
          invoked |-> <<>>]
    ELSE LET r == Invoke(handlers[name], args, out, err)
         IN  [output |-> r.output, err |-> r.err, spawned |-> r.spawned,
              invoked |-> <<[handler |-> handlers[name], args |-> args]>>]

\* what the subprocess gives back to CombinedOutput in the runs of the loops
LoopOutcomes ==
    { [out |-> sHelloNewline, err |-> NoErr],
      [out |-> <<>>, err |-> sExitStatus1] }

\* no direct Dispatch has been made
NoDispatch == [name |-> <<>>, args |-> [kind |-> "absent", str |-> <<>>], invoked |-> <<>>]

\* no subprocess has run
NoProc == [out |-> <<>>, err |-> NoErr]

\* what the subprocess can give back to CombinedOutput
ExecOutcomes ==
    { [out |-> sHelloNewline, err |-> NoErr],
      [out |-> <<>>, err |-> NoErr],
      [out |-> <<>>, err |-> sExitStatus1],
      [out |-> sHelloNewline, err |-> sExitStatus1],
      [out |-> <<" ", "\n">>, err |-> NoErr],
      [out |-> <<" ", "\n">>, err |-> sExitStatus1] }

\* the command of TestRunBash_OutputTruncation, which writes a long output
sPrintLong ==
    <<"p", "y", "t", "h", "o", "n", "3", " ", "-", "c", " ", "\"", "p", "r", "i", "n", "t", "(", "'", "x", "'", " ", "*", " ", "6", "0", "0", "0", "0", ")", "\"">>

\* an output of n bytes
Long(n) == [i \in 1..n |-> "x"]

\* what the subprocess of a command with a long output can give back: outputs
\* that reach a cap or pass it by one byte, bare or between white space
LongOutcomes ==
    { [out |-> ends[1] \o Long(n) \o ends[2], err |-> e] :
        n \in {registryCap, registryCap + 1, interactiveCap, interactiveCap + 1},
        ends \in {<< <<>>, <<>> >>, << <<" ">>, <<"\n">> >>},
        e \in {NoErr, sExitStatus1} }

\* what the subprocess of command cmd can give back
OutcomesOf(cmd) == IF cmd = sPrintLong THEN LongOutcomes ELSE ExecOutcomes

----------------------------------------------------------------------------
(* Messages of the conversation history.                                   *)

\* openai.UserMessage
UserMessage(text) ==
    [role |-> "user", content |-> text, tool_calls |-> <<>>, tool_call_id |-> ""]

\* openai.SystemMessage
SystemMessage(text) ==
    [role |-> "system", content |-> text, tool_calls |-> <<>>, tool_call_id |-> ""]

\* a tool message that loses the id of the call it answers
ToolMessageWithoutId(text, id) ==
    [role |-> "tool", content |-> text, tool_calls |-> <<>>, tool_call_id |-> ""]

\* openai.ToolMessage(content, toolCallID)
ToolMessage(text, id) ==
    [role |-> "tool", content |-> text, tool_calls |-> <<>>, tool_call_id |-> id]

\* ChatCompletionMessage.ToParam, but the text of the message is dropped
ToParamDropsContent(message) ==
    [role |-> "assistant", content |-> <<>>,
     tool_calls |-> message.tool_calls, tool_call_id |-> ""]

\* ChatCompletionMessage.ToParam: the assistant message with its tool calls
ToParam(message) ==
    [role |-> "assistant", content |-> message.content,
     tool_calls |-> message.tool_calls, tool_call_id |-> ""]

\* tool call ids the model client assigns ("" is kept for "no id")
Ids == {"call-1", "call-2"}

\* the (function name, arguments) pairs the model may request
CallKinds ==
    { [name |-> sBash, arguments |-> sArgsOpen \o sEchoHello \o sArgsClose],
      [name |-> sBash, arguments |-> sArgsOpen \o sSudoLs \o sArgsClose],
      [name |-> sBash, arguments |-> sArgsInvalid],
      [name |-> sBash, arguments |-> sArgsNumber],
      [name |-> sNope, arguments |-> sArgsOpen \o sEchoHello \o sArgsClose] }

ToolCalls ==
    { [id |-> i, name |-> k.name, arguments |-> k.arguments] : i \in Ids, k \in CallKinds }

CallLists(n) == UNION { [1..m -> ToolCalls] : m \in 0..n }

FinishReasons == {"tool_calls", "stop"}

\* the smaller of two numbers
Min(a, b) == IF a < b THEN a ELSE b

\* the responses the model client may return when n more tool calls may be
\* requested: tool requesting ones with up to n calls, and final ones, which
\* may still carry a tool call
Responses(n) ==
    { [finish |-> "tool_calls", message |-> [content |-> <<>>, tool_calls |-> tcs]] :
        tcs \in CallLists(n) }
    \cup
    { [finish |-> "stop", message |-> [content |-> sOk, tool_calls |-> tcs]] :
        tcs \in CallLists(Min(n, 1)) }

NoChoice == [finish |-> "", message |-> [content |-> <<>>, tool_calls |-> <<>>]]

\* histories the callers pass in: main of the interactive agent passes the
\* history of the REPL (a first turn, or a later turn after a tool round),
\* main of the registry based agent a system message and a user message
InputHistories(v) ==
    IF v = "agentLoop"
    THEN { <<UserMessage(sSayHello)>>,
           <<UserMessage(sSayHello),
             ToParam([content |-> <<>>,
                      tool_calls |-> <<[id |-> "call-1", name |-> sBash,
                                        arguments |-> sArgsOpen \o sEchoHello \o sArgsClose]>>]),
             ToolMessage(TrimSpace(sHelloNewline), "call-1"),
             ToParam([content |-> sOk, tool_calls |-> <<>>]),
             UserMessage(sSayHello)>> }
    ELSE { <<SystemMessage(sSystemPrompt), UserMessage(sSayHello)>> }

\* tool calls requested so far by the messages from position i on
RECURSIVE RequestedFrom(_, _)
RequestedFrom(msgs, i) ==
    IF i > Len(msgs) THEN 0
    ELSE Len(msgs[i].tool_calls) + RequestedFrom(msgs, i + 1)

Budget == MaxToolCalls - RequestedFrom(messages, Len(input) + 1)

----------------------------------------------------------------------------
(* The interactive loop: agentLoop of agents/s01_agent_loop/main.go.       *)

Init ==
    /\ variant \in {"agentLoop", "Run"}
    /\ pc = "AwaitingModel"
    /\ input \in InputHistories(variant)
    /\ messages = input
    /\ choice = NoChoice
    /\ idx = 0
    /\ modelCalls = 0
    /\ request = NoRequest
    /\ ret = <<>>
    /\ retErr = "nil"
    /\ spawned = <<>>
    /\ tool = "none"
    /\ command = <<>>
    /\ result = [output |-> <<>>, err |-> NoErr]
    /\ proc = NoProc
    /\ registry = IF variant = "Run" THEN mainRegistry ELSE New
    /\ registered = IF variant = "Run"
                    THEN <<[def |-> registryBashToolDef, handler |-> "bashHandler"]>>
                    ELSE <<>>
    /\ dispatch = NoDispatch

\* on an error of llm.Complete the loop hands back nothing
AgentLoopApiErrorReturnsNil ==
    /\ variant = "agentLoop"
    /\ pc = "AwaitingModel"
    /\ modelCalls < MaxModelCalls
    /\ request' = [messages |-> <<SystemMessage(sSystemPrompt)>> \o messages,
                    tools |-> <<bashToolDef>>]
    /\ modelCalls' = modelCalls + 1
    /\ pc' = "Failed"
    /\ ret' = <<>>
    /\ UNCHANGED <<variant, input, messages, choice, idx, retErr, spawned, toolVars>>

\* on an error of llm.Complete the loop hands back the history it was called with
AgentLoopApiErrorReturnsInput ==
    /\ variant = "agentLoop"
    /\ pc = "AwaitingModel"
    /\ modelCalls < MaxModelCalls
    /\ request' = [messages |-> <<SystemMessage(sSystemPrompt)>> \o messages,
                    tools |-> <<bashToolDef>>]
    /\ modelCalls' = modelCalls + 1
    /\ pc' = "Failed"
    /\ ret' = input
    /\ UNCHANGED <<variant, input, messages, choice, idx, retErr, spawned, toolVars>>

\* llm.Complete returns an error: the loop returns messages
AgentLoopApiError ==
    /\ variant = "agentLoop"
    /\ pc = "AwaitingModel"
    /\ modelCalls < MaxModelCalls
    /\ request' = [messages |-> <<SystemMessage(sSystemPrompt)>> \o messages,
                    tools |-> <<bashToolDef>>]
    /\ modelCalls' = modelCalls + 1
    /\ pc' = "Failed"
    /\ ret' = messages
    /\ UNCHANGED <<variant, input, messages, choice, idx, retErr, spawned, toolVars>>

\* AgentLoopResponse, but the assistant message is put in front of the history
AgentLoopResponsePrepends ==
    /\ variant = "agentLoop"
    /\ pc = "AwaitingModel"
    /\ modelCalls < MaxModelCalls
    /\ \E resp \in Responses(Budget) :
        /\ request' = [messages |-> <<SystemMessage(sSystemPrompt)>> \o messages,
                    tools |-> <<bashToolDef>>]
        /\ modelCalls' = modelCalls + 1
        /\ choice' = resp
        /\ messages' = <<ToParam(resp.message)>> \o messages
        /\ IF resp.finish # "tool_calls"
           THEN /\ pc' = "Done"
                /\ ret' = messages'
                /\ idx' = idx
           ELSE /\ pc' = IF Len(resp.message.tool_calls) = 0
                         THEN "AwaitingModel" ELSE "ExecutingTools"
                /\ ret' = ret
                /\ idx' = 1
    /\ UNCHANGED <<variant, input, retErr, spawned, toolVars>>

\* llm.Complete returns a response: append it, then decide on the finish reason
AgentLoopResponse ==
    /\ variant = "agentLoop"
    /\ pc = "AwaitingModel"
    /\ modelCalls < MaxModelCalls
    /\ \E resp \in Responses(Budget) :
        /\ request' = [messages |-> <<SystemMessage(sSystemPrompt)>> \o messages,
                    tools |-> <<bashToolDef>>]
        /\ modelCalls' = modelCalls + 1
        /\ choice' = resp
        /\ messages' = Append(messages, ToParam(resp.message))
        /\ IF resp.finish # "tool_calls"
           THEN /\ pc' = "Done"
                /\ ret' = messages'
                /\ idx' = idx
           ELSE /\ pc' = IF Len(resp.message.tool_calls) = 0
                         THEN "AwaitingModel" ELSE "ExecutingTools"
                /\ ret' = ret
                /\ idx' = 1
    /\ UNCHANGED <<variant, input, retErr, spawned, toolVars>>

\* AgentLoopToolCall, but a call with unparseable arguments is skipped
\* without a tool message
AgentLoopToolCallSkipsParseError ==
    /\ variant = "agentLoop"
    /\ pc = "ExecutingTools"
    /\ LET tc == choice.message.tool_calls[idx]
           parsed == jsonUnmarshal(tc.arguments)
           cmd == IF parsed.args.kind = "string" THEN parsed.args.str ELSE <<>>
       IN  IF parsed.err # NoErr
           THEN /\ messages' = messages
                /\ spawned' = spawned
           ELSE \E o \in LoopOutcomes :
                    LET r == runBashIn(cmd, o.out, o.err)
                    IN  /\ messages' = Append(messages, ToolMessage(r.output, tc.id))
                        /\ spawned' = IF r.spawned THEN Append(spawned, cmd) ELSE spawned
    /\ idx' = idx + 1
    /\ pc' = IF idx = Len(choice.message.tool_calls)
             THEN "AwaitingModel" ELSE "ExecutingTools"
    /\ UNCHANGED <<variant, input, choice, modelCalls, request, ret, retErr, toolVars>>

\* one iteration of the range loop over choice.Message.ToolCalls
AgentLoopToolCall ==
    /\ variant = "agentLoop"
    /\ pc = "ExecutingTools"
    /\ LET tc == choice.message.tool_calls[idx]
           parsed == jsonUnmarshal(tc.arguments)
           cmd == IF parsed.args.kind = "string" THEN parsed.args.str ELSE <<>>
       IN  IF parsed.err # NoErr
           THEN /\ messages' = Append(messages,
                                   ToolMessage(sLowerErrorPrefix \o parsed.err, tc.id))
                /\ spawned' = spawned
           ELSE \E o \in LoopOutcomes :
                    LET r == runBashIn(cmd, o.out, o.err)
                    IN  /\ messages' = Append(messages, ToolMessage(r.output, tc.id))
                        /\ spawned' = IF r.spawned THEN Append(spawned, cmd) ELSE spawned
    /\ idx' = idx + 1
    /\ pc' = IF idx = Len(choice.message.tool_calls)
             THEN "AwaitingModel" ELSE "ExecutingTools"
    /\ UNCHANGED <<variant, input, choice, modelCalls, request, ret, retErr, toolVars>>

----------------------------------------------------------------------------
(* The registry based loop: loop.Run of pkg/loop/agent.go.                 *)

\* RunApiError, but the failed call is tried again
RunApiErrorRetries ==
    /\ variant = "Run"
    /\ pc = "AwaitingModel"
    /\ modelCalls < MaxModelCalls
    /\ request' = [messages |-> messages, tools |-> Definitions(registry)]
    /\ modelCalls' = modelCalls + 1
    /\ pc' = "AwaitingModel"
    /\ ret' = ret
    /\ retErr' = retErr
    /\ UNCHANGED <<variant, input, messages, choice, idx, spawned, toolVars>>

\* client.Chat.Completions.New returns an error
RunApiError ==
    /\ variant = "Run"
    /\ pc = "AwaitingModel"
    /\ modelCalls < MaxModelCalls
    /\ request' = [messages |-> messages, tools |-> Definitions(registry)]
    /\ modelCalls' = modelCalls + 1
    /\ pc' = "Failed"
    /\ ret' = messages
    /\ retErr' = "API call failed"
    /\ UNCHANGED <<variant, input, messages, choice, idx, spawned, toolVars>>

\* RunResponse, but the first requested command is started while the model
\* call is still being answered
RunResponseStartsToolEarly ==
    /\ variant = "Run"
    /\ pc = "AwaitingModel"
    /\ modelCalls < MaxModelCalls
    /\ \E resp \in Responses(Budget) :
        /\ request' = [messages |-> messages, tools |-> Definitions(registry)]
        /\ modelCalls' = modelCalls + 1
        /\ choice' = resp
        /\ messages' = Append(messages, ToParam(resp.message))
        /\ spawned' = IF Len(resp.message.tool_calls) = 0
                      THEN spawned ELSE Append(spawned, sEchoHello)
        /\ IF resp.finish # "tool_calls"
           THEN /\ pc' = "Done"
                /\ ret' = messages'
                /\ idx' = idx
           ELSE /\ pc' = IF Len(resp.message.tool_calls) = 0
                         THEN "AwaitingModel" ELSE "ExecutingTools"
                /\ ret' = ret
                /\ idx' = 1
    /\ UNCHANGED <<variant, input, retErr, toolVars>>

\* client.Chat.Completions.New returns a response
RunResponse ==
    /\ variant = "Run"
    /\ pc = "AwaitingModel"
    /\ modelCalls < MaxModelCalls
    /\ \E resp \in Responses(Budget) :
        /\ request' = [messages |-> messages, tools |-> Definitions(registry)]
        /\ modelCalls' = modelCalls + 1
        /\ choice' = resp
        /\ messages' = Append(messages, ToParam(resp.message))
        /\ IF resp.finish # "tool_calls"
           THEN /\ pc' = "Done"
                /\ ret' = messages'
                /\ idx' = idx
           ELSE /\ pc' = IF Len(resp.message.tool_calls) = 0
                         THEN "AwaitingModel" ELSE "ExecutingTools"
                /\ ret' = ret
                /\ idx' = 1
    /\ UNCHANGED <<variant, input, retErr, spawned, toolVars>>

\* one iteration of the range loop over choice.Message.ToolCalls
RunToolCall ==
    /\ variant = "Run"
    /\ pc = "ExecutingTools"
    /\ LET tc == choice.message.tool_calls[idx]
           parsed == jsonUnmarshal(tc.arguments)
       IN  IF parsed.err # NoErr
           THEN /\ pc' = "Aborted"
                /\ ret' = messages
                /\ retErr' = "failed to parse tool args"
                /\ UNCHANGED <<messages, spawned, idx>>
           ELSE \E o \in LoopOutcomes :
                    LET r == Dispatch(registry.handlers, tc.name, parsed.args, o.out, o.err)
                        output == IF r.err # NoErr
                                  THEN sLowerErrorPrefix \o r.err ELSE r.output
                    IN  /\ messages' = Append(messages, ToolMessage(output, tc.id))
                        /\ spawned' = IF r.spawned
                                      THEN Append(spawned, parsed.args.str) ELSE spawned
                        /\ idx' = idx + 1
                        /\ pc' = IF idx = Len(choice.message.tool_calls)
                                 THEN "AwaitingModel" ELSE "ExecutingTools"
                        /\ UNCHANGED <<ret, retErr>>
    /\ UNCHANGED <<variant, input, choice, modelCalls, request, toolVars>>

Next ==
    \/ AgentLoopApiError
    \/ AgentLoopResponse
    \/ AgentLoopToolCall
    \/ RunApiError
    \/ RunResponse
    \/ RunToolCall

Spec == Init /\ [][Next]_vars

----------------------------------------------------------------------------
(* Direct calls of the two bash tools, as the tests of runBash make them.  *)

PadChars == {"x", " "}

Pads == UNION { [1..n -> PadChars] : n \in 0..MaxPad }

\* the five patterns, and texts that differ from one in case or whitespace
Cores ==
    { sRmRf, sSudo, sShutdown, sReboot, sDevRedirect,
      sUpperSudo, sRmTwoSpaces, sRmNoSlash, sDevNoSpace, sUpperReboot,
      sShutDown, sEchoSafe, <<>> }

Commands ==
    { pre \o core \o post : pre \in Pads, core \in Cores, post \in Pads }
        \cup {sPrintLong}

\* parsed arguments handed to bashHandler
HandlerArgs ==
    { [kind |-> "string", str |-> c] : c \in Commands }
        \cup { [kind |-> "number", str |-> <<>>], [kind |-> "absent", str |-> <<>>] }

BashInit ==
    /\ variant = "agentLoop"
    /\ pc = "AwaitingModel"
    /\ input = <<UserMessage(sSayHello)>>
    /\ messages = input
    /\ choice = NoChoice
    /\ idx = 0
    /\ modelCalls = 0
    /\ request = NoRequest
    /\ ret = <<>>
    /\ retErr = "nil"
    /\ spawned = <<>>
    /\ tool = "none"
    /\ command = <<>>
    /\ result = [output |-> <<>>, err |-> NoErr]
    /\ proc = NoProc
    /\ registry = New
    /\ registered = <<>>
    /\ dispatch = NoDispatch

\* runBash(command)
CallRunBash ==
    /\ tool = "none"
    /\ \E cmd \in Commands : \E o \in OutcomesOf(cmd) :
        LET r == runBashIn(cmd, o.out, o.err)
        IN  /\ tool' = "runBashIn"
            /\ command' = cmd
            /\ result' = [output |-> r.output, err |-> NoErr]
            /\ spawned' = IF r.spawned THEN <<cmd>> ELSE <<>>
            /\ proc' = IF r.spawned THEN o ELSE NoProc
    /\ UNCHANGED <<loopVars, regVars>>

\* bashHandler(args)
CallBashHandler ==
    /\ tool = "none"
    /\ \E a \in HandlerArgs : \E o \in OutcomesOf(a.str) :
        LET r == bashHandler(a, o.out, o.err)
        IN  /\ tool' = "bashHandler"
            /\ command' = a.str
            /\ result' = [output |-> r.output, err |-> r.err]
            /\ spawned' = IF r.spawned THEN <<a.str>> ELSE <<>>
            /\ proc' = IF r.spawned THEN o ELSE NoProc
    /\ UNCHANGED <<loopVars, regVars>>

\* the caller has looked at the result; the next call starts afresh
BashReturn ==
    /\ tool # "none"
    /\ tool' = "none"
    /\ command' = <<>>
    /\ result' = [output |-> <<>>, err |-> NoErr]
    /\ spawned' = <<>>
    /\ proc' = NoProc
    /\ UNCHANGED <<loopVars, regVars>>

BashNext ==
    \/ CallRunBash
    \/ CallBashHandler
    \/ BashReturn

SpecBash == BashInit /\ [][BashNext]_vars

----------------------------------------------------------------------------
(* The tool registry called directly: Register and Dispatch of pkg/tools.  *)

\* Register calls made on one registry
MaxRegister == 3

\* the definitions handed to Register: two names, each with two descriptions
RegistryDefs ==
    { ToolDef(n, d) : n \in {sBash, sReadFile}, d \in {sRunShell, sExecuteBash} }

\* the handlers handed to Register
RegistryHandlers == {"bashHandler", "h1", "h2"}

\* the names asked of Dispatch: the two above and one that is never registered
DispatchNames == {sBash, sReadFile, sNope}

\* the parsed arguments handed to Dispatch
DispatchArgs ==
    { [kind |-> "string", str |-> sEchoHello], [kind |-> "number", str |-> <<>>] }

\* a test starts from an empty registry, with no loop running
RegistryInit == BashInit

\* registry.Register(def, handler)
CallRegister ==
    /\ tool = "none"
    /\ Len(registered) < MaxRegister
    /\ \E def \in RegistryDefs, handler \in RegistryHandlers :
        /\ registry' = Register(registry, def, handler)
        /\ registered' = Append(registered, [def |-> def, handler |-> handler])
    /\ UNCHANGED <<loopVars, tool, command, result, proc, spawned, dispatch>>

\* registry.Dispatch(name, args)
CallDispatch ==
    /\ tool = "none"
    /\ \E name \in DispatchNames, args \in DispatchArgs, o \in LoopOutcomes :
        LET r == Dispatch(registry.handlers, name, args, o.out, o.err)
        IN  /\ tool' = "Dispatch"
            /\ command' = IF r.spawned THEN args.str ELSE <<>>
            /\ result' = [output |-> r.output, err |-> r.err]
            /\ spawned' = IF r.spawned THEN <<args.str>> ELSE <<>>
            /\ proc' = IF r.spawned THEN o ELSE NoProc
            /\ dispatch' = [name |-> name, args |-> args, invoked |-> r.invoked]
    /\ UNCHANGED <<loopVars, registry, registered>>

\* the caller has looked at what Dispatch returned
DispatchReturn ==
    /\ tool = "Dispatch"
    /\ tool' = "none"
    /\ command' = <<>>
    /\ result' = [output |-> <<>>, err |-> NoErr]
    /\ spawned' = <<>>
    /\ proc' = NoProc
    /\ dispatch' = NoDispatch
    /\ UNCHANGED <<loopVars, registry, registered>>

RegistryNext ==
    \/ CallRegister
    \/ CallDispatch
    \/ DispatchReturn

SpecRegistry == RegistryInit /\ [][RegistryNext]_vars

----------------------------------------------------------------------------
(* Properties of the loops.                                                *)

\* position of the last assistant message of a history, 0 when there is none
RECURSIVE LastAssistant(_, _)
LastAssistant(msgs, i) ==
    IF i = 0 THEN 0
    ELSE IF msgs[i].role = "assistant" THEN i
    ELSE LastAssistant(msgs, i - 1)

\* the round of the last response is over: the range loop has been left
RoundOver == choice.finish = "tool_calls" /\ pc # "ExecutingTools"

\* C1: when the round of a response with finish reason tool_calls and k tool
\* calls is over (the next model call can be issued, or the loop has
\* returned), exactly k+1 messages were appended in it: the assistant message
\* of the response, then k tool messages.
C1_RoundAppendsKPlusOne ==
    RoundOver =>
        LET a == LastAssistant(messages, Len(messages))
            k == Len(choice.message.tool_calls)
        IN  /\ a > Len(input)
            /\ messages[a] = ToParam(choice.message)
            /\ Len(messages) = a + k
            /\ \A j \in (a + 1)..Len(messages) : messages[j].role = "tool"

\* C2: the i-th message after the assistant message of a tool requesting
\* response is the tool message with the id of its i-th tool call; while the
\* round runs the answers are a prefix of the calls, and when the round is
\* over every call 1..k has its answer.
C2_ResultsInRequestOrder ==
    choice.finish = "tool_calls" =>
        LET a == LastAssistant(messages, Len(messages))
            calls == choice.message.tool_calls
        IN  /\ a > 0
            /\ Len(messages) - a <= Len(calls)
            /\ \A i \in 1..(Len(messages) - a) :
                 /\ messages[a + i].role = "tool"
                 /\ messages[a + i].tool_call_id = calls[i].id
            /\ RoundOver => \A i \in 1..Len(calls) : a + i <= Len(messages)

\* the same two statements for the interactive loop alone
C1_HoldsInAgentLoop == variant = "agentLoop" => C1_RoundAppendsKPlusOne

C2_HoldsInAgentLoop == variant = "agentLoop" => C2_ResultsInRequestOrder

\* positions of the tool messages the loop has appended
AppendedToolMessages ==
    { j \in (Len(input) + 1)..Len(messages) : messages[j].role = "tool" }

\* the tool calls of the nearest assistant message before position j
CallsBefore(j) == messages[LastAssistant(messages, j - 1)].tool_calls

\* calls of the nearest preceding assistant message that carry the id of message j
MatchingCalls(j) ==
    { i \in 1..Len(CallsBefore(j)) : CallsBefore(j)[i].id = messages[j].tool_call_id }

\* no tool message between that assistant message and message j has the id of message j
Unanswered(j) ==
    \A m \in (LastAssistant(messages, j - 1) + 1)..(j - 1) :
        messages[m].tool_call_id # messages[j].tool_call_id

\* the ids of the tool calls of one assistant message are pairwise distinct
DistinctIds(calls) ==
    \A i1, i2 \in 1..Len(calls) : calls[i1].id = calls[i2].id => i1 = i2

\* C3 as stated: whatever ids the model client assigns, every tool message
\* appended by the loop matches exactly one tool call of the nearest preceding
\* assistant message, and that call was unanswered when it was appended.
C3_MatchesExactlyOneForAnyIds ==
    \A j \in AppendedToolMessages :
        /\ LastAssistant(messages, j - 1) > Len(input)
        /\ Cardinality(MatchingCalls(j)) = 1
        /\ Unanswered(j)

\* C3 as amended: every tool message appended by the loop is the n-th message
\* after the nearest preceding assistant message, which the loop appended, and
\* carries the id of its n-th tool call; when the ids of that response are
\* pairwise distinct it matches exactly that one call, unanswered until then.
C3_MatchesCallAtSamePosition ==
    \A j \in AppendedToolMessages :
        LET a == LastAssistant(messages, j - 1)
        IN  /\ a > Len(input)
            /\ j - a <= Len(CallsBefore(j))
            /\ messages[j].tool_call_id = CallsBefore(j)[j - a].id
            /\ DistinctIds(CallsBefore(j)) =>
                 /\ MatchingCalls(j) = {j - a}
                 /\ Unanswered(j)

\* two calls with distinct ids of one response have both been answered
C3_Witness ==
    \E j \in AppendedToolMessages :
        /\ j - LastAssistant(messages, j - 1) = 2
        /\ Len(CallsBefore(j)) = 2
        /\ DistinctIds(CallsBefore(j))
        /\ pc = "AwaitingModel"

\* the call the range loop is at has arguments that are not well-formed JSON
AtMalformedCall ==
    /\ pc = "ExecutingTools"
    /\ jsonUnmarshal(choice.message.tool_calls[idx].arguments).err # NoErr

\* C4: at a tool call whose argument text is not well-formed JSON the loop
\* appends exactly one error-tagged tool message with the id of that call,
\* spawns nothing, reports no error to the caller and does not return: it goes
\* on to the next call of the response, or to the next model call after the
\* last one.
C4_MalformedArgumentsAreAnswered ==
    [][AtMalformedCall =>
         /\ Len(messages') = Len(messages) + 1
         /\ SubSeq(messages', 1, Len(messages)) = messages
         /\ messages'[Len(messages')].role = "tool"
         /\ messages'[Len(messages')].tool_call_id = choice.message.tool_calls[idx].id
         /\ HasPrefix(messages'[Len(messages')].content, sLowerErrorPrefix)
         /\ spawned' = spawned
         /\ retErr' = "nil"
         /\ idx' = idx + 1
         /\ pc' = IF idx = Len(choice.message.tool_calls)
                  THEN "AwaitingModel" ELSE "ExecutingTools"]_vars

\* the same statement for the interactive loop alone
C4_HoldsInAgentLoop ==
    [][variant = "agentLoop" => (AtMalformedCall =>
         /\ messages' = Append(messages,
                ToolMessage(sLowerErrorPrefix
                              \o jsonUnmarshal(choice.message.tool_calls[idx].arguments).err,
                            choice.message.tool_calls[idx].id))
         /\ spawned' = spawned
         /\ pc' \in {"AwaitingModel", "ExecutingTools"})]_vars

\* p is a prefix of s
IsPrefix(p, s) == Len(p) <= Len(s) /\ SubSeq(s, 1, Len(p)) = p

\* C5 as stated: whichever round the model call fails in, the history the
\* loop returns has the length and the content of the history passed in.
C5_FailedReturnsInput ==
    pc = "Failed" => ret = input

\* C5 as amended: when the model call fails in the first round the returned
\* history has the length and the content of the input history; when it fails
\* in a later round the returned history is the input history followed by the
\* messages of the earlier rounds, hence longer than the input.
C5_FailedReturnsInputInFirstRound ==
    pc = "Failed" =>
        /\ IsPrefix(input, ret)
        /\ modelCalls = 1 => ret = input
        /\ modelCalls > 1 => Len(ret) > Len(input)

\* the model call of the second round has failed
C5_Witness ==
    /\ pc = "Failed"
    /\ modelCalls = 2
    /\ Len(ret) > Len(input)

\* the history that went out with the last request (agentLoop puts the system
\* prompt in front of it, Run sends it as it is)
HistorySent == IF variant = "agentLoop" THEN Tail(request.messages) ELSE request.messages

\* assistant messages among the messages from position i on
RECURSIVE AssistantsFrom(_, _)
AssistantsFrom(msgs, i) ==
    IF i > Len(msgs) THEN 0
    ELSE (IF msgs[i].role = "assistant" THEN 1 ELSE 0) + AssistantsFrom(msgs, i + 1)

\* C6: when the model call of round n fails, the loop returns the history as
\* it went out with that call: the input followed by the n-1 assistant
\* messages of the earlier rounds, each with all its tool results, and nothing
\* of the failed call.
C6_FailedReturnsHistoryBeforeCall ==
    pc = "Failed" =>
        /\ ret = HistorySent
        /\ ret = messages
        /\ IsPrefix(input, ret)
        /\ AssistantsFrom(ret, Len(input) + 1) = modelCalls - 1
        /\ Len(ret) = Len(input) + (modelCalls - 1) + RequestedFrom(ret, Len(input) + 1)

\* the model call fails after a round in which two tool calls were answered
C6_Witness ==
    /\ pc = "Failed"
    /\ modelCalls = 2
    /\ Len(ret) = Len(input) + 3
    /\ ret[Len(ret)].role = "tool"

\* this step is a model call that succeeded
ModelAnswered == modelCalls' = modelCalls + 1 /\ pc' # "Failed"

\* what the loop does on the response it has just received
DecidesOnFinishReason ==
    ModelAnswered =>
        /\ messages' = Append(messages, ToParam(choice'.message))
        /\ pc' = "Done" <=> choice'.finish # "tool_calls"
        /\ choice'.finish # "tool_calls" => ret' = messages' /\ spawned' = spawned
        /\ choice'.finish = "tool_calls" =>
             pc' = IF choice'.message.tool_calls = <<>>
                   THEN "AwaitingModel" ELSE "ExecutingTools"

\* tool execution is only left for the next model call
ToolsLeadToModelCall ==
    pc = "ExecutingTools" => pc' \in {"ExecutingTools", "AwaitingModel"}

\* C9: after a successful model call the loop returns (Done) exactly when the
\* finish reason is not tool_calls, also when the response carries tool
\* calls; otherwise it enters tool execution (with no tool calls it is at the
\* next model call at once, only the assistant message appended), and tool
\* execution ends in the next model call.
C9_FinishReasonDecides ==
    [][DecidesOnFinishReason /\ ToolsLeadToModelCall]_vars

\* the same statement for the interactive loop alone
C9_HoldsInAgentLoop ==
    [][variant = "agentLoop" => DecidesOnFinishReason /\ ToolsLeadToModelCall]_vars

\* the decision on the finish reason alone, for both loops
C9_DecisionHoldsInBothLoops ==
    [][DecidesOnFinishReason]_vars

\* the loop has returned
Returned == pc \notin {"AwaitingModel", "ExecutingTools"}

\* C10: the loop ends in two ways only: Done, right after appending a response
\* whose finish reason asks for no tools, and Failed, right after a failed
\* model call; nothing that goes wrong with a tool call makes it return.
C10_OnlyDoneOrFailed ==
    /\ Returned => pc \in {"Done", "Failed"}
    /\ pc = "Done" =>
         /\ choice.finish # "tool_calls"
         /\ ret = messages
         /\ messages[Len(messages)] = ToParam(choice.message)
    /\ pc = "Failed" => ret = messages

\* the same statement for the interactive loop alone
C10_HoldsInAgentLoop == variant = "agentLoop" => C10_OnlyDoneOrFailed

\* the model does not ask for tools for ever: the last call the bound allows
\* ends in a failure or in a final response
ModelStopsInTime == modelCalls' = MaxModelCalls => pc' = "Done"

LiveNext ==
    \/ AgentLoopApiError
    \/ AgentLoopResponse /\ ModelStopsInTime
    \/ AgentLoopToolCall
    \/ RunApiError
    \/ RunResponse /\ ModelStopsInTime
    \/ RunToolCall

\* the loops run on one thread and every model call and every tool execution
\* returns: a step that can be taken is taken
SpecLive == Init /\ [][LiveNext]_vars /\ WF_vars(LiveNext)

\* C11: when every model call and every tool execution returns and the model
\* at some point fails or answers without tool requests, the loop reaches
\* Done or Failed.
C11_EventuallyDoneOrFailed == <>(pc \in {"Done", "Failed"})

\* the same statement for the interactive loop alone
C11_HoldsInAgentLoop == variant = "agentLoop" => <>(pc \in {"Done", "Failed"})

\* both loops return
C11_BothLoopsReturn == <>Returned

\* the history keeps what it held: the step only appends to it
GrowsByAppending == IsPrefix(messages, messages') /\ input' = input

\* C12: the history only grows by appending.  At every point the input
\* history is a prefix of the current history, every step leaves the history
\* it found as a prefix of the history it leaves (so every earlier history is
\* a prefix of every later one: nothing is deleted, replaced or reordered),
\* and the returned history has the input history as a prefix.
C12_HistoryOnlyGrowsByAppending ==
    /\ [](IsPrefix(input, messages) /\ (Returned => IsPrefix(input, ret)))
    /\ [][GrowsByAppending]_vars

\* a run of two rounds has returned: the history grew by an assistant message,
\* a tool message and the final assistant message
C12_Witness ==
    /\ pc = "Done"
    /\ modelCalls = 2
    /\ Len(ret) >= Len(input) + 3
    /\ ret[Len(input) + 2].role = "tool"

\* the step issues a model call
IssuesModelCall == modelCalls' = modelCalls + 1

\* no system message stands among the messages the loop appended to msgs
NoSystemAppended(msgs) ==
    \A j \in (Len(input) + 1)..Len(msgs) : msgs[j].role # "system"

\* C13: every model request is the system prompt followed by exactly the
\* history as it is when the call is issued, together with all registered tool
\* definitions (the one tool named bash); the system prompt is never appended
\* to the history that is returned.
C13_RequestIsSystemPromptThenHistory ==
    /\ [][IssuesModelCall =>
            /\ request'.messages = <<SystemMessage(sSystemPrompt)>> \o messages
            /\ NamesOf(request'.tools) = <<sBash>>]_vars
    /\ [](Returned => NoSystemAppended(ret))

\* the interactive loop builds its requests as C13 says
C13_HoldsInAgentLoop ==
    /\ [][IssuesModelCall /\ variant = "agentLoop" =>
            /\ request'.messages = <<SystemMessage(sSystemPrompt)>> \o messages
            /\ NamesOf(request'.tools) = <<sBash>>]_vars
    /\ [](Returned => NoSystemAppended(ret))

\* the registry based loop sends the history as it is, with the definitions
\* of the registry, and adds no system prompt of its own
C13_RunSendsHistoryAsIs ==
    [][IssuesModelCall /\ variant = "Run" =>
            /\ request'.messages = messages
            /\ NamesOf(request'.tools) = <<sBash>>]_vars

\* how many model calls, subprocesses and tool results the step accounts for
ModelCallsOfStep == modelCalls' - modelCalls
SubprocessesOfStep == Len(spawned') - Len(spawned)
ToolResultsOfStep ==
    Cardinality({j \in (Len(messages) + 1)..Len(messages') :
                    messages'[j].role = "tool"})

\* the tool messages that follow the last assistant message of msgs
ResultsOfRound(msgs) == Len(msgs) - LastAssistant(msgs, Len(msgs))

\* C14: at most one operation is in flight at any time.  Every step of a
\* loop is one blocking operation from its start to its end: it is one model
\* call or the execution of one tool call, never two of a kind and never one
\* of each.  A model call is issued only while no tool call of the last
\* response is left to execute, and a tool call is executed only when every
\* earlier tool call of the same response has its result in the history.
C14_OneOperationAtATime ==
    [][/\ ModelCallsOfStep \in {0, 1}
       /\ SubprocessesOfStep \in {0, 1}
       /\ ToolResultsOfStep \in {0, 1}
       /\ ModelCallsOfStep = 1 => SubprocessesOfStep = 0 /\ ToolResultsOfStep = 0
       /\ ModelCallsOfStep = 1 => pc = "AwaitingModel"
       /\ SubprocessesOfStep = 1 \/ ToolResultsOfStep = 1 =>
            /\ pc = "ExecutingTools"
            /\ ResultsOfRound(messages) = idx - 1
            /\ ResultsOfRound(messages') = idx]_vars

\* two tool calls of one response have both been executed, between the first
\* model call and the second
C14_Witness ==
    /\ modelCalls = 1
    /\ pc = "AwaitingModel"
    /\ Len(choice.message.tool_calls) = 2
    /\ Len(spawned) = 2

\* the step is a model call that failed: a call was issued and no assistant
\* message came of it
ModelCallFails == IssuesModelCall /\ messages' = messages

\* the rounds so far: each one appended one assistant message, but for the
\* round whose model call failed
RoundsSoFar ==
    AssistantsFrom(messages, Len(input) + 1) + IF pc = "Failed" THEN 1 ELSE 0

\* C15: after a model call fails, no further model call is issued and no
\* tool is executed: a failed call is never retried and ends the run in
\* Failed, where no step follows; and each round issues exactly one model
\* call, so the model calls are as many as the rounds.
C15_FailedCallIsNeverRetried ==
    /\ [][ModelCallFails => pc' = "Failed"]_vars
    /\ [][pc = "Failed" =>
            modelCalls' = modelCalls /\ spawned' = spawned /\ pc' = "Failed"]_vars
    /\ [](modelCalls = RoundsSoFar)

\* the registry based loop failed at its first model call, with the bound on
\* model calls leaving room for another call
C15_Witness ==
    /\ variant = "Run"
    /\ pc = "Failed"
    /\ modelCalls = 1
    /\ modelCalls < MaxModelCalls
    /\ spawned = <<>>

\* what a caller holds of a run that ended in Done: no error, and a history
\* that grew and ends with the assistant message of the final response
LooksLikeDone ==
    /\ retErr = "nil"
    /\ Len(ret) > Len(input)
    /\ ret[Len(ret)].role = "assistant"

\* C16: a failed model call is propagated to the caller: whatever the input
\* history and the round of the failure, what the loop hands back (the
\* history and the error) lets the caller tell a run that ended in Failed
\* from one that ended in Done, so a Failed outcome never looks like a Done
\* outcome.
C16_FailedIsToldFromDone == pc = "Failed" => ~LooksLikeDone

\* the registry based loop hands the failure back as an error value
C16_HoldsInRun == variant = "Run" /\ pc = "Failed" => retErr # "nil"

\* the interactive loop hands back no error, whatever happened
C16_AgentLoopReturnsNoError == variant = "agentLoop" => retErr = "nil"

\* the call the range loop is at, and its arguments once parsed
CurrentCall == choice.message.tool_calls[idx]
CurrentArgs == jsonUnmarshal(CurrentCall.arguments)

\* the call the range loop is at has well-formed arguments
AtWellFormedCall == pc = "ExecutingTools" /\ CurrentArgs.err = NoErr

\* the names of the registered tools: both agents offer the one tool bash
RegisteredNames == DOMAIN mainHandlers

\* the step answers the current call with one tool message of that text and
\* the id of the call, spawns nothing and goes on with the loop
AnswersWithoutRunning(text) ==
    /\ messages' = Append(messages, ToolMessage(text, CurrentCall.id))
    /\ spawned' = spawned
    /\ retErr' = retErr
    /\ pc' = IF idx = Len(choice.message.tool_calls)
             THEN "AwaitingModel" ELSE "ExecutingTools"

\* an unknown tool name is answered with the not-found error, nothing runs
UnknownToolRunsNothing ==
    AtWellFormedCall /\ CurrentCall.name \notin RegisteredNames =>
        AnswersWithoutRunning(sLowerErrorPrefix \o sUnknownToolPrefix
                                \o CurrentCall.name)

\* an error of a registered handler is answered with that error
HandlerErrorIsAnswered ==
    /\ variant = "Run"
    /\ AtWellFormedCall
    /\ CurrentCall.name \in RegisteredNames
    /\ CurrentArgs.args.kind # "string"
    => AnswersWithoutRunning(sLowerErrorPrefix \o sCommandMustBeString)

\* C17: a tool call that names an unregistered tool never makes a handler or
\* a subprocess run: the loop appends exactly one tool message with the id of
\* the call and the error text of the not-found failure, and goes on; an
\* error returned by a registered handler is answered the same way.
C17_UnknownToolAndHandlerErrorAreAnswered ==
    [][UnknownToolRunsNothing /\ HandlerErrorIsAnswered]_vars

\* the registry based loop does as C17 says
C17_HoldsInRun ==
    [][variant = "Run" => UnknownToolRunsNothing /\ HandlerErrorIsAnswered]_vars

\* the interactive loop runs the command of a call whatever tool it names
C17_AgentLoopIgnoresTheName ==
    [][variant = "agentLoop" /\ AtWellFormedCall /\ CurrentArgs.args.kind = "string"
       /\ ~IsBlocked(CurrentArgs.args.str)
       => spawned' = Append(spawned, CurrentArgs.args.str)]_vars

\* the tool calls carried by the tool-requesting responses of a finished run:
\* those of all assistant messages but the final one
CallsOfToolRounds ==
    RequestedFrom(ret, Len(input) + 1) - Len(choice.message.tool_calls)

\* the tool-requesting responses of a finished run: all responses but the
\* final one
ToolRounds == AssistantsFrom(ret, Len(input) + 1) - 1

C19_DirectAnswer ==
    /\ variant = "agentLoop"
    /\ pc = "Done"
    /\ Len(input) = 1
    /\ modelCalls = 1
    /\ Len(ret) = 2

\* the steps of the loops under a model that answers every call with a
\* tool-requesting response: no call fails and no response is final
PerpetualNext ==
    \/ AgentLoopResponse /\ choice'.finish = "tool_calls"
    \/ AgentLoopToolCall
    \/ RunResponse /\ choice'.finish = "tool_calls"
    \/ RunToolCall

SpecPerpetual == Init /\ [][PerpetualNext]_vars

\* C27: under a model that answers every call with a tool-requesting
\* response the loop keeps running: it has no turn limit, so it never returns,
\* in Done, in Failed or otherwise, and every model call finds a history that
\* is longer than the one before.
C27_PerpetualModelKeepsLoopRunning ==
    /\ ~Returned
    /\ Len(messages) >= Len(input) + modelCalls

\* the interactive loop never returns under such a model
C27_HoldsInAgentLoop ==
    variant = "agentLoop" =>
        /\ ~Returned
        /\ Len(messages) >= Len(input) + modelCalls

\* neither loop ever reaches Done or Failed under such a model
C27_NeitherDoneNorFailed == pc \notin {"Done", "Failed"}

\* the interactive loop has issued as many model calls as the bound allows
\* and stands ready for the next one
C27_AgentLoopStillRunning ==
    /\ variant = "agentLoop"
    /\ modelCalls = MaxModelCalls
    /\ pc = "AwaitingModel"

\* the position in msgs of the last message, if any, that is an assistant
\* message of a final response: only the last message of a run that is Done
FinalAt(msgs) == IF pc = "Done" THEN Len(msgs) ELSE 0

\* a call of the assistant message at position j of msgs, the k-th, has its
\* tool message at position j + k
AnsweredInPlace(msgs, j, k) ==
    /\ j + k <= Len(msgs)
    /\ msgs[j + k].role = "tool"
    /\ msgs[j + k].tool_call_id = msgs[j].tool_calls[k].id

\* every call with parseable arguments of every tool-requesting response
\* appended to msgs in this invocation has been executed once and in request
\* order: its tool message stands at its place after the assistant message
ParseableCallsAnswered(msgs) ==
    \A j \in (Len(input) + 1)..Len(msgs) :
        msgs[j].role = "assistant" /\ j # FinalAt(msgs) =>
            \A k \in 1..Len(msgs[j].tool_calls) :
                jsonUnmarshal(msgs[j].tool_calls[k].arguments).err = NoErr =>
                    AnsweredInPlace(msgs, j, k)

\* every call of every assistant message of msgs appended in this invocation
\* has a tool message with its id after it
NoCallUnanswered(msgs) ==
    \A j \in (Len(input) + 1)..Len(msgs) :
        msgs[j].role = "assistant" =>
            \A k \in 1..Len(msgs[j].tool_calls) :
                \E m \in (j + 1)..Len(msgs) :
                    /\ msgs[m].role = "tool"
                    /\ msgs[m].tool_call_id = msgs[j].tool_calls[k].id

\* the rounds so far are over: the loop stands before a model call or has
\* returned
BetweenRounds == pc # "ExecutingTools"

\* C28: each requested tool call whose arguments parse is executed exactly
\* once, in request order, and the next model call is issued only after every
\* tool call of the current response has been answered: whenever a round is
\* over every such call has its one tool message at its place, no subprocess
\* ran beyond one per call, and no model request holds an assistant message
\* appended in this invocation with a tool call that has no tool message
\* after it.
C28_ParseableCallsExecutedOnceInOrder ==
    /\ BetweenRounds => ParseableCallsAnswered(messages)
    /\ Len(spawned) <= RequestedFrom(messages, Len(input) + 1)
    /\ modelCalls > 0 => NoCallUnanswered(HistorySent)

\* the same statement for the interactive loop
C28_HoldsInAgentLoop ==
    variant = "agentLoop" =>
        /\ BetweenRounds => ParseableCallsAnswered(messages)
        /\ Len(spawned) <= RequestedFrom(messages, Len(input) + 1)
        /\ modelCalls > 0 => NoCallUnanswered(HistorySent)

\* in both loops no model request holds an unanswered tool call
C28_RequestsAreAnswered == modelCalls > 0 => NoCallUnanswered(HistorySent)

\* the last message of msgs is the assistant message of the last response
EndsWithResponse(msgs) ==
    /\ msgs # <<>>
    /\ msgs[Len(msgs)].role = "assistant"
    /\ msgs[Len(msgs)].content = choice.message.content
    /\ msgs[Len(msgs)].tool_calls = choice.message.tool_calls

\* every call of every assistant message of msgs appended in this invocation
\* for a tool-requesting response has a tool message with its id after it
ToolRoundsAnswered(msgs) ==
    \A j \in (Len(input) + 1)..Len(msgs) :
        msgs[j].role = "assistant" /\ j # FinalAt(msgs) =>
            \A k \in 1..Len(msgs[j].tool_calls) :
                \E m \in (j + 1)..Len(msgs) :
                    /\ msgs[m].role = "tool"
                    /\ msgs[m].tool_call_id = msgs[j].tool_calls[k].id

\* C30: whenever the loop returns, in Done or in Failed, every tool call of
\* every assistant message appended during this invocation is followed by a
\* tool message with its id, and in Done the last message of the returned
\* history is the assistant message of the final response.
C30_ReturnedHistoryFullyAnswered ==
    pc \in {"Done", "Failed"} =>
        /\ NoCallUnanswered(ret)
        /\ pc = "Done" => EndsWithResponse(ret)

\* C30 as it holds: whenever the loop returns, in Done or in Failed, every
\* tool call of every assistant message appended for a tool-requesting
\* response is followed by a tool message with its id, and in Done the last
\* message of the returned history is the assistant message of the final
\* response; the tool calls that a final response carries are not answered.
C30_ToolRoundsAnsweredOnReturn ==
    pc \in {"Done", "Failed"} =>
        /\ ToolRoundsAnswered(ret)
        /\ pc = "Done" => EndsWithResponse(ret)
        /\ pc = "Done" /\ choice.message.tool_calls # <<>> => ~NoCallUnanswered(ret)

\* a loop has returned in Done after a tool round, and its final response
\* carries a tool call
C30_Witness ==
    /\ pc = "Done"
    /\ modelCalls = 2
    /\ spawned # <<>>
    /\ choice.message.tool_calls # <<>>

----------------------------------------------------------------------------
(* Properties of the bash tools.                                           *)

\* the five blocklisted texts
Blocklist == {sRmRf, sSudo, sShutdown, sReboot, sDevRedirect}

\* pattern p stands in text s at position i, character for character
OccursAt(s, p, i) ==
    \A j \in 1..Len(p) : i + j - 1 <= Len(s) /\ s[i + j - 1] = p[j]

\* text s has a blocklisted pattern as a contiguous, case-sensitive substring
HasBlocklisted(s) ==
    \E p \in Blocklist : \E i \in 1..Len(s) : OccursAt(s, p, i)

\* C7: for a command that contains a blocklisted substring the result of the
\* bash tool, of the interactive loop and of the registry alike, is the fixed
\* sentinel and no subprocess was spawned.
C7_BlocklistedNeverSpawned ==
    (tool # "none" /\ HasBlocklisted(command)) =>
        /\ result.output = sBlocked
        /\ spawned = <<>>

\* the same statement for runBashIn alone
C7_HoldsForRunBashIn ==
    (tool = "runBashIn" /\ HasBlocklisted(command)) =>
        /\ result.output = sBlocked
        /\ spawned = <<>>

\* C8: runBashIn blocks a command exactly when it contains one of the five
\* patterns as a contiguous, case-sensitive substring: then it returns the
\* sentinel and spawns nothing; a command without such a substring (also one
\* that differs from a pattern in case or whitespace) is spawned as it is.
C8_BlockedIffSubstring ==
    tool = "runBashIn" =>
        /\ HasBlocklisted(command) <=> spawned = <<>>
        /\ HasBlocklisted(command) => result.output = sBlocked
        /\ ~HasBlocklisted(command) => spawned = <<command>> /\ result.output # sBlocked

\* sudo inside a longer word has been blocked
C8_Witness ==
    /\ tool = "runBashIn"
    /\ command = <<"x">> \o sSudo \o <<"x">>
    /\ result.output = sBlocked
    /\ spawned = <<>>

\* SUDO in upper case has been executed
C8_UpperCaseExecuted ==
    /\ tool = "runBashIn"
    /\ command = sUpperSudo \o <<" ">>
    /\ spawned = <<command>>

\* the interactive loop is at a call whose command the safety gate of its
\* bash tool blocks: the command holds a blocklisted text
AtBlockedCommand ==
    /\ variant = "agentLoop"
    /\ AtWellFormedCall
    /\ CurrentArgs.args.kind = "string"
    /\ HasBlocklisted(CurrentArgs.args.str)

\* the range loop moves on from the current call as it does from any call:
\* to the next call of the response, or to the next model call after the last
MovesOn ==
    /\ idx' = idx + 1
    /\ modelCalls' = modelCalls
    /\ pc' = IF idx = Len(choice.message.tool_calls)
             THEN "AwaitingModel" ELSE "ExecutingTools"

\* C18: when the safety gate blocks the command of a requested tool call,
\* the loop appends one tool message with the id of that call and the blocked
\* sentinel as content, runs nothing, and carries on: it moves on to the
\* remaining calls and to the next model call exactly as it does after an
\* allowed command, so the model calls are as many as for an allowed command.
C18_BlockedCommandIsAnsweredAndLoopGoesOn ==
    [][/\ AtBlockedCommand => AnswersWithoutRunning(sBlocked)
       /\ variant = "agentLoop" /\ pc = "ExecutingTools" => MovesOn]_vars

\* the interactive loop answered sudo ls with the sentinel, spawned nothing,
\* issued its second model call and returned with the final response
C18_Witness ==
    /\ variant = "agentLoop"
    /\ pc = "Done"
    /\ modelCalls = 2
    /\ spawned = <<>>
    /\ ret[Len(ret) - 1].role = "tool"
    /\ ret[Len(ret) - 1].content = sBlocked

\* a bash tool was called with a command and has returned its result text
BashToolReturned == tool # "none" /\ result.err = NoErr

\* the subprocess of the call ran, exited with status 0 and wrote nothing
RanWithoutOutput == spawned # <<>> /\ proc.err = NoErr /\ proc.out = <<>>

\* C20: the bash tool never returns an empty string as its result: whatever
\* the command and its outcome (blocked, exit 0 with or without output,
\* non-zero exit with or without output) the result text is non-empty, and a
\* successful run without output yields exactly "(no output)"; for the bash
\* tool of the interactive loop and for the handler of the registry alike.
C20_BashResultIsNeverEmpty ==
    BashToolReturned =>
        /\ result.output # <<>>
        /\ RanWithoutOutput => result.output = sNoOutput

\* the same statement for runBashIn alone
C20_HoldsForRunBashIn ==
    tool = "runBashIn" =>
        /\ result.output # <<>>
        /\ RanWithoutOutput => result.output = sNoOutput

\* bashHandler hands back the bytes of the subprocess as they are, up to
\* its cap
C20_BashHandlerReturnsOutputAsIs ==
    tool = "bashHandler" /\ spawned # <<>> /\ proc.err = NoErr
        /\ Len(proc.out) <= registryCap =>
        result.output = proc.out

\* the first position of text s from i on that holds no white space, and
\* the last one up to i; Len(s) + 1 and 0 when there is none
RECURSIVE FirstInk(_, _)
FirstInk(s, i) ==
    IF i > Len(s) \/ ~IsSpace(s[i]) THEN i ELSE FirstInk(s, i + 1)

RECURSIVE LastInk(_, _)
LastInk(s, i) ==
    IF i = 0 \/ ~IsSpace(s[i]) THEN i ELSE LastInk(s, i - 1)

\* text s without its leading and trailing white space: what lies between its
\* first and its last character that is no white space
Stripped(s) == SubSeq(s, FirstInk(s, 1), LastInk(s, Len(s)))

\* the output cap of the bash tool that was called
CapOfTool == IF tool = "bashHandler" THEN registryCap ELSE interactiveCap

\* the subprocess of the call ran and exited with a status other than 0
ExitedNonZero == tool # "none" /\ spawned # <<>> /\ proc.err # NoErr

\* C21: for a command that exits non-zero the result is an error description
\* that embeds the process error when the captured output is empty, and the
\* captured output itself, without the process error, when it is not (here
\* for outputs within the cap, white space at its ends aside); either way it
\* is handed back as an ordinary result, not as an error of the tool.
C21_NonZeroExitResult ==
    ExitedNonZero /\ Len(proc.out) <= CapOfTool =>
        /\ result.err = NoErr
        /\ Stripped(proc.out) = <<>> => Contains(result.output, proc.err)
        /\ Stripped(proc.out) # <<>> =>
                result.output \in {proc.out, Stripped(proc.out)}

\* the same statement for runBashIn alone
C21_HoldsForRunBashIn ==
    tool = "runBashIn" /\ ExitedNonZero /\ Len(proc.out) <= CapOfTool =>
        /\ Stripped(proc.out) = <<>> => Contains(result.output, proc.err)
        /\ Stripped(proc.out) # <<>> => result.output = Stripped(proc.out)

\* bashHandler puts the process error in front of whatever was captured
C21_BashHandlerAlwaysAddsError ==
    tool = "bashHandler" /\ ExitedNonZero =>
        result.output = sExitErrorPrefix \o proc.err \o <<"\n">> \o proc.out

\* in the loops a command that ran is answered by a tool message and the
\* range loop moves on, whatever the exit status
C21_LoopIsNotAborted ==
    [][SubprocessesOfStep = 1 => ToolResultsOfStep = 1 /\ MovesOn]_vars

\* the subprocess of the call ran
Ran == tool # "none" /\ spawned # <<>>

\* C22: the text the bash tool returns never exceeds the cap of the tool,
\* for any output; for an output that is longer than the cap (white space at
\* its ends aside) it is exactly as long as the cap, so no marker is appended
\* to it.  This holds after exit 0 and after a non-zero exit, for the cap of
\* 50,000 bytes of the interactive tool and for the cap of the registry tool.
C22_ResultWithinCap ==
    Ran =>
        /\ Len(result.output) <= CapOfTool
        /\ Len(Stripped(proc.out)) > CapOfTool => Len(result.output) = CapOfTool

\* the same statement for runBashIn alone
C22_HoldsForRunBashIn ==
    tool = "runBashIn" /\ Ran =>
        /\ Len(result.output) <= interactiveCap
        /\ Len(Stripped(proc.out)) > interactiveCap =>
                result.output = SubSeq(Stripped(proc.out), 1, interactiveCap)

\* bashHandler appends a marker to what it cuts after exit 0, and cuts
\* nothing after a non-zero exit
C22_BashHandlerPassesItsCap ==
    tool = "bashHandler" /\ Ran /\ Len(proc.out) > registryCap =>
        Len(result.output) =
            IF proc.err = NoErr
            THEN registryCap + Len(sTruncatedMarker)
            ELSE Len(sExitErrorPrefix) + Len(proc.err) + 1 + Len(proc.out)

----------------------------------------------------------------------------
(* Properties of the tool registry.                                        *)

\* the names under which Register was called
NamesRegistered == {registered[i].def.name : i \in 1..Len(registered)}

\* the handler of the last Register call under name n
LastBound(n) ==
    LET last == CHOOSE i \in 1..Len(registered) :
                    /\ registered[i].def.name = n
                    /\ \A j \in (i + 1)..Len(registered) : registered[j].def.name # n
    IN  registered[last].handler

\* C23: registering a definition under a name that is already present
\* overwrites the previous handler: every name is bound to the handler of the
\* last Register call under that name, whatever was registered under other
\* names before or after, and a Dispatch of the name invokes that handler and
\* no other.
C23_ReRegistrationOverwritesHandler ==
    /\ \A n \in NamesRegistered :
            n \in DOMAIN registry.handlers /\ registry.handlers[n] = LastBound(n)
    /\ tool = "Dispatch" /\ dispatch.name \in NamesRegistered =>
            \A i \in 1..Len(dispatch.invoked) :
                dispatch.invoked[i].handler = LastBound(dispatch.name)

\* a name was registered with one handler, then with another, a second name
\* was registered as well, and a Dispatch of the first name has invoked a
\* handler
C23_Witness ==
    /\ tool = "Dispatch"
    /\ Len(dispatch.invoked) = 1
    /\ Cardinality(NamesRegistered) = 2
    /\ \E i, j \in 1..Len(registered) :
            /\ i < j
            /\ registered[i].def.name = dispatch.name
            /\ registered[j].def.name = dispatch.name
            /\ registered[i].handler # registered[j].handler

\* C24: Dispatch of a name that was never registered signals the
\* tool-not-found error with empty output and invokes no handler; Dispatch of
\* a registered name invokes the handler bound to that name, once, with the
\* arguments it was given, and returns the output and the error of that
\* handler unchanged.
C24_DispatchInvokesBoundHandlerOnce ==
    tool = "Dispatch" =>
        IF dispatch.name \notin NamesRegistered
        THEN /\ result = [output |-> <<>>, err |-> sUnknownToolPrefix \o dispatch.name]
             /\ dispatch.invoked = <<>>
             /\ spawned = <<>>
        ELSE LET h == registry.handlers[dispatch.name]
                 r == Invoke(h, dispatch.args, proc.out, proc.err)
             IN  /\ dispatch.invoked = <<[handler |-> h, args |-> dispatch.args]>>
                 /\ result = [output |-> r.output, err |-> r.err]

\* two names are bound to different handlers and a Dispatch of one of them
\* has returned the error of its handler
C24_Witness ==
    /\ tool = "Dispatch"
    /\ DOMAIN registry.handlers = {sBash, sReadFile}
    /\ registry.handlers[sBash] # registry.handlers[sReadFile]
    /\ Len(dispatch.invoked) = 1
    /\ result.err = sTwoFailed

\* a Dispatch of a name that was never registered, on a registry that holds
\* another name
C24_NotFoundReached ==
    /\ tool = "Dispatch"
    /\ dispatch.name = sNope
    /\ registered # <<>>
    /\ result.err = sUnknownToolPrefix \o sNope

\* the definitions handed to Register, in the order of the calls
DefsRegistered == [i \in 1..Len(registered) |-> registered[i].def]

\* C25: after any sequence of Register calls Definitions() returns the
\* registered definitions in the order in which they were registered, and a
\* later Register leaves the definitions registered before it where they are,
\* in front of its own.
C25_DefinitionsInRegistrationOrder ==
    /\ [](Definitions(registry) = DefsRegistered)
    /\ [][IsPrefix(Definitions(registry), Definitions(registry'))]_vars

\* three definitions were registered, not all the same
C25_Witness ==
    /\ Len(Definitions(registry)) = 3
    /\ Definitions(registry)[1] # Definitions(registry)[2]
    /\ Definitions(registry)[2] # Definitions(registry)[3]

\* C26: after any sequence of Register calls, repeated registration under
\* one name included, tool names are unique in the registry: Definitions()
\* never holds two definitions with the same name, and the names in
\* Definitions() are the names that Dispatch can resolve.
C26_NamesAreUnique ==
    LET defs == Definitions(registry)
    IN  /\ \A i, j \in 1..Len(defs) : i # j => defs[i].name # defs[j].name
        /\ {defs[i].name : i \in 1..Len(defs)} = DOMAIN registry.handlers

\* the names in Definitions() are the names that Dispatch can resolve
C26_NamesAreTheResolvableOnes ==
    {Definitions(registry)[i].name : i \in 1..Len(Definitions(registry))}
        = DOMAIN registry.handlers

\* Definitions() holds one definition for each Register call, repeated names
\* included
C26_OneDefinitionPerRegisterCall == Len(Definitions(registry)) = Len(registered)

\* C29: runBashIn trims the leading and trailing white space of the captured
\* output before every other check: an output of white space only counts as
\* empty and gives "(no output)" after exit 0 and the error description after
\* a non-zero exit, and the cap is applied to the trimmed text, so that a
\* trimmed text within the cap comes back whole, however long the captured
\* output was.
C29_TrimmedBeforeOtherChecks ==
    tool = "runBashIn" /\ Ran =>
        LET trimmed == Stripped(proc.out)
        IN  /\ trimmed = <<>> /\ proc.err = NoErr => result.output = sNoOutput
            /\ trimmed = <<>> /\ proc.err # NoErr =>
                    result.output = sErrorPrefix \o proc.err
            /\ trimmed # <<>> /\ Len(trimmed) <= interactiveCap =>
                    result.output = trimmed
            /\ Len(trimmed) > interactiveCap =>
                    result.output = SubSeq(trimmed, 1, interactiveCap)

\* an output of white space only was captured after exit 0
C29_Witness ==
    /\ tool = "runBashIn"
    /\ Ran
    /\ proc.out = <<" ", "\n">>
    /\ proc.err = NoErr
    /\ result.output = sNoOutput

\* a captured output longer than the cap whose trimmed text is exactly as
\* long as the cap came back whole
C29_TrimmedTextFitsTheCap ==
    /\ tool = "runBashIn"
    /\ Len(proc.out) = interactiveCap + 2
    /\ Len(result.output) = interactiveCap
    /\ result.output = SubSeq(proc.out, 2, interactiveCap + 1)

====
